---- MODULE Spec2Model ----
(***************************************************************************)
(* Model of importHelper.py: the roster validator, the grade table         *)
(* validator, the assignment classifier, the student index builders and    *)
(* the CodeHS output assembler, and main(), which runs them in order.      *)
(*                                                                         *)
(* A CSV file is modelled as what csv.reader yields for it: a sequence of  *)
(* rows, each row a sequence of strings (a blank line is the empty row).   *)
(* A call's outcome is a record: kind "return" with a value, or kind       *)
(* "raise" with the exception's name, plus the lines it printed (out).     *)
(* Python indices are 0-based and kept so; row[i] is Cell(row, i).         *)
(***************************************************************************)
EXTENDS Integers, Sequences, FiniteSets, TLC

VARIABLES pc, import_type, roster_file, grades_file, grade_valid, roster_valid,
          graded_assignments, roster, grades, output_opened, output,
          exit_status, exc, stdout

vars == <<pc, import_type, roster_file, grades_file, grade_valid, roster_valid,
          graded_assignments, roster, grades, output_opened, output,
          exit_status, exc, stdout>>

(***************************************************************************)
(* Outcomes of calls and printed lines                                     *)
(***************************************************************************)
Diag(msg, row, arg) == [msg |-> msg, row |-> row, arg |-> arg]

Return(v, printed) == [kind |-> "return", value |-> v, exc |-> "", out |-> printed]

Raise(e, printed) == [kind |-> "raise", value |-> FALSE, exc |-> e, out |-> printed]

(***************************************************************************)
(* Python's str, list and dict operations used by the program              *)
(***************************************************************************)
Whitespace == {" ", "\t", "\n", "\r", "\f"}

UpperCase == "ABCDEFGHIJKLMNOPQRSTUVWXYZ"

LowerCase == "abcdefghijklmnopqrstuvwxyz"

Digits == {"0", "1", "2", "3", "4", "5", "6", "7", "8", "9"}

CharAt(s, i) == SubSeq(s, i, i)

Letters == {CharAt(UpperCase, i) : i \in 1..Len(UpperCase)}
               \cup {CharAt(LowerCase, i) : i \in 1..Len(LowerCase)}

\* str.strip(): drop leading and trailing whitespace
RECURSIVE lstrip(_)
lstrip(s) ==
    IF s # "" /\ CharAt(s, 1) \in Whitespace
    THEN lstrip(SubSeq(s, 2, Len(s)))
    ELSE s

RECURSIVE rstrip(_)
rstrip(s) ==
    IF s # "" /\ CharAt(s, Len(s)) \in Whitespace
    THEN rstrip(SubSeq(s, 1, Len(s) - 1))
    ELSE s

strip(s) == rstrip(lstrip(s))

\* str.lower(): map each upper-case letter to its lower-case letter
lower_char(c) ==
    IF \E i \in 1..Len(UpperCase) : CharAt(UpperCase, i) = c
    THEN CharAt(LowerCase, CHOOSE i \in 1..Len(UpperCase) : CharAt(UpperCase, i) = c)
    ELSE c

RECURSIVE lower(_)
lower(s) ==
    IF s = "" THEN ""
    ELSE lower_char(CharAt(s, 1)) \o lower(SubSeq(s, 2, Len(s)))

\* x in list
InList(x, list) == \E i \in 1..Len(list) : list[i] = x

\* list.index(x): 0-based position of the first occurrence (x is in the list)
index(list, x) == (CHOOSE i \in 1..Len(list) :
                       list[i] = x /\ \A j \in 1..(i - 1) : list[j] # x) - 1

\* list[i] for a 0-based i that is in range
Cell(row, i) == row[i + 1]

InRange(row, i) == i >= 0 /\ i < Len(row)

\* dict[k] = v on an insertion-ordered dict kept as a sequence of entries:
\* an existing key keeps its place and takes the new value
HasKey(d, k) == \E i \in 1..Len(d) : d[i].key = k

DictSet(d, k, v) ==
    IF HasKey(d, k)
    THEN [i \in 1..Len(d) |-> IF d[i].key = k THEN [key |-> k, value |-> v] ELSE d[i]]
    ELSE Append(d, [key |-> k, value |-> v])

DictGet(d, k) == d[CHOOSE i \in 1..Len(d) : d[i].key = k].value

\* next(reader) on a csv.reader over a file object
next_row(file, pos, closed) ==
    IF closed THEN Raise("ValueError", <<>>)
    ELSE IF pos > Len(file) THEN Raise("StopIteration", <<>>)
    ELSE Return(file[pos], <<>>)

\* the data rows a reader yields after the header row has been read
DataRows(file) == SubSeq(file, 2, Len(file))

(***************************************************************************)
(* Roster validator                                                        *)
(***************************************************************************)
required_headers == <<"Student Email", "First Name", "Last Name", "Unique User ID">>

\* The loop "for header in header_row: header = header.strip()" rebinds its
\* loop variable only: header_row is left as read.
validate_headers(file) ==
    LET first == next_row(file, 1, FALSE)
    IN  IF first.kind = "raise" THEN first
        ELSE
        LET header_row == first.value
            missing == SelectSeq(required_headers, LAMBDA h : ~InList(h, header_row))
            printed == [i \in 1..Len(missing) |-> Diag("must_contain", 0, missing[i])]
        IN  IF Len(missing) > 0
            THEN Return(FALSE, Append(printed, Diag("missing_required_headers", 0, "")))
            ELSE IF ~InRange(header_row, 0) THEN Raise("IndexError", <<>>)
            ELSE IF strip(Cell(header_row, 0)) # "Student Email"
            THEN Return(FALSE, <<Diag("email_not_first_column", 0, "")>>)
            ELSE IF ~InRange(header_row, 3) THEN Raise("IndexError", <<>>)
            ELSE IF strip(Cell(header_row, 3)) # "Unique User ID"
            THEN Return(FALSE, <<Diag("unique_id_not_fourth_column", 0, "")>>)
            ELSE Return(TRUE, <<>>)

\* re.match(r'^[a-zA-Z]{2}(\d+)(@.*)$', s): the position after the digit run
RECURSIVE DigitRunEnd(_, _)
DigitRunEnd(s, i) ==
    IF i <= Len(s) /\ CharAt(s, i) \in Digits THEN DigitRunEnd(s, i + 1) ELSE i

\* '.' matches any character but a newline; '$' matches at the end or before
\* a newline that ends the string
TailMatches(t) ==
    LET body == IF t # "" /\ CharAt(t, Len(t)) = "\n" THEN SubSeq(t, 1, Len(t) - 1) ELSE t
    IN  \A i \in 1..Len(body) : CharAt(body, i) # "\n"

re_match(s) ==
    LET e == DigitRunEnd(s, 3)
    IN  IF /\ Len(s) >= 2
           /\ CharAt(s, 1) \in Letters
           /\ CharAt(s, 2) \in Letters
           /\ e > 3
           /\ e <= Len(s)
           /\ CharAt(s, e) = "@"
           /\ TailMatches(SubSeq(s, e + 1, Len(s)))
        THEN [matched |-> TRUE, group1 |-> SubSeq(s, 3, e - 1)]
        ELSE [matched |-> FALSE, group1 |-> ""]

\* the body of the loop of validate_student_ids from data row i (0-based) on
RECURSIVE validate_student_ids_from(_, _, _)
validate_student_ids_from(header_row, rows, i) ==
    IF i >= Len(rows) THEN Return(TRUE, <<>>)
    ELSE
    LET row == rows[i + 1]
    IN  IF ~InList("Student Email", header_row) THEN Raise("ValueError", <<>>)
        ELSE IF ~InRange(row, index(header_row, "Student Email"))
        THEN Raise("IndexError", <<>>)
        ELSE IF ~InList("Unique User ID", header_row) THEN Raise("ValueError", <<>>)
        ELSE IF ~InRange(row, index(header_row, "Unique User ID"))
        THEN Raise("IndexError", <<>>)
        ELSE
        LET student_email == Cell(row, index(header_row, "Student Email"))
            unique_id == Cell(row, index(header_row, "Unique User ID"))
            match == re_match(student_email)
        IN  IF match.matched
            THEN IF unique_id # "1_" \o match.group1
                 THEN Return(FALSE, <<Diag("id_mismatch", i + 1, ""),
                                      Diag("please_check", 0, "")>>)
                 ELSE validate_student_ids_from(header_row, rows, i + 1)
            ELSE Return(FALSE, <<Diag("invalid_email_format", i + 1, ""),
                                 Diag("please_check", 0, "")>>)

validate_student_ids(file) ==
    LET first == next_row(file, 1, FALSE)
    IN  IF first.kind = "raise" THEN first
        ELSE validate_student_ids_from(first.value, DataRows(file), 0)

\* the loop of validate_student_data from data row i on: what it prints and
\* whether it ends with is_data_missing set, or the exception it raises
RECURSIVE validate_student_data_from(_, _, _)
validate_student_data_from(header_row, rows, i) ==
    IF i >= Len(rows) THEN Return(FALSE, <<>>)
    ELSE
    LET row == rows[i + 1]
        rest == validate_student_data_from(header_row, rows, i + 1)
    IN  IF Len(row) < 4
        THEN IF rest.kind = "raise"
             THEN Raise(rest.exc, <<Diag("missing_columns", i + 1, "")>> \o rest.out)
             ELSE Return(TRUE, <<Diag("missing_columns", i + 1, "")>> \o rest.out)
        ELSE IF ~InList("Unique User ID", header_row) THEN Raise("ValueError", <<>>)
        ELSE IF ~InRange(row, index(header_row, "Unique User ID"))
        THEN Raise("IndexError", <<>>)
        ELSE IF ~InList("Student Email", header_row) THEN Raise("ValueError", <<>>)
        ELSE IF ~InRange(row, index(header_row, "Student Email"))
        THEN Raise("IndexError", <<>>)
        ELSE
        LET unique_id == Cell(row, index(header_row, "Unique User ID"))
            student_email == Cell(row, index(header_row, "Student Email"))
        IN  IF student_email = "" \/ unique_id = ""
            THEN IF rest.kind = "raise"
                 THEN Raise(rest.exc, <<Diag("empty_email_or_id", i + 1, ""),
                                        Diag("please_check", 0, "")>> \o rest.out)
                 ELSE Return(TRUE, <<Diag("empty_email_or_id", i + 1, ""),
                                     Diag("please_check", 0, "")>> \o rest.out)
            ELSE rest

validate_student_data(file) ==
    LET first == next_row(file, 1, FALSE)
    IN  IF first.kind = "raise" THEN first
        ELSE
        LET loop == validate_student_data_from(first.value, DataRows(file), 0)
        IN  IF loop.kind = "raise" THEN loop
            ELSE IF loop.value
            THEN Return(FALSE, Append(loop.out, Diag("missing_required_data", 0, "")))
            ELSE Return(TRUE, loop.out)

\* is_valid = validate_headers(..) and validate_student_ids(..) and
\*            validate_student_data(..): a check runs only if those before it
\* returned True
roster_file_is_valid(file) ==
    LET h == validate_headers(file)
    IN  IF h.kind = "raise" \/ ~h.value THEN h
        ELSE
        LET ids == validate_student_ids(file)
        IN  IF ids.kind = "raise" THEN Raise(ids.exc, h.out \o ids.out)
            ELSE IF ~ids.value THEN Return(FALSE, h.out \o ids.out)
            ELSE
            LET data == validate_student_data(file)
            IN  IF data.kind = "raise" THEN Raise(data.exc, h.out \o ids.out \o data.out)
                ELSE IF ~data.value THEN Return(FALSE, h.out \o ids.out \o data.out)
                ELSE Return(TRUE, Append(h.out \o ids.out \o data.out,
                                         Diag("roster_seems_valid", 0, "")))

(***************************************************************************)
(* Student index builder (roster)                                          *)
(***************************************************************************)
RECURSIVE get_students_in_roster_from(_, _, _)
get_students_in_roster_from(students, rows, i) ==
    IF i >= Len(rows) THEN Return(students, <<>>)
    ELSE IF ~InRange(rows[i + 1], 0) THEN Raise("IndexError", <<>>)
    ELSE get_students_in_roster_from(
             DictSet(students, Cell(rows[i + 1], 0), rows[i + 1]), rows, i + 1)

get_students_in_roster(file) ==
    LET first == next_row(file, 1, FALSE)
    IN  IF first.kind = "raise" THEN first
        ELSE get_students_in_roster_from(
                 DictSet(<<>>, "header", first.value), DataRows(file), 0)

(***************************************************************************)
(* Grade table validator                                                   *)
(***************************************************************************)
\* the loop of grade_file_is_valid from data row i (0-based) on
RECURSIVE grade_rows_match_from(_, _, _)
grade_rows_match_from(num_columns, rows, i) ==
    IF i >= Len(rows)
    THEN Return(TRUE, <<Diag("grades_seem_valid", 0, "")>>)
    ELSE IF Len(rows[i + 1]) # num_columns
    THEN Return(FALSE, <<Diag("columns_do_not_match_header", i, ""),
                         Diag("please_check", 0, "")>>)
    ELSE grade_rows_match_from(num_columns, rows, i + 1)

\* a validator that starts its comparison one data row too late
grade_file_is_valid_SkipsFirstRow(gradesfile) ==
    LET header == next_row(gradesfile, 1, FALSE)
    IN  IF header.kind = "raise" THEN header
        ELSE grade_rows_match_from(Len(header.value), DataRows(gradesfile), 1)

grade_file_is_valid(gradesfile) ==
    LET header == next_row(gradesfile, 1, FALSE)
    IN  IF header.kind = "raise" THEN header
        ELSE grade_rows_match_from(Len(header.value), DataRows(gradesfile), 0)

(***************************************************************************)
(* Assignment classifier                                                   *)
(***************************************************************************)
graded_types == {"check for understanding", "exercise", "unit quiz"}

\* a classifier that lower-cases the type but does not strip it
RECURSIVE graded_indices_NoStrip(_, _)
graded_indices_NoStrip(assignment_types, i) ==
    IF i >= Len(assignment_types) THEN <<>>
    ELSE IF lower(Cell(assignment_types, i)) \in {"check for understanding", "exercise", "unit quiz"}
    THEN <<i>> \o graded_indices_NoStrip(assignment_types, i + 1)
    ELSE graded_indices_NoStrip(assignment_types, i + 1)

\* the indices i (0-based, ascending) of the entries of assignment_types,
\* from index i on, that are graded
RECURSIVE graded_indices_from(_, _)
graded_indices_from(assignment_types, i) ==
    IF i >= Len(assignment_types) THEN <<>>
    ELSE IF lower(strip(Cell(assignment_types, i))) \in graded_types
    THEN <<i>> \o graded_indices_from(assignment_types, i + 1)
    ELSE graded_indices_from(assignment_types, i + 1)

get_CodeHS_graded_assignments(grades_csv) ==
    LET first == next_row(grades_csv, 1, FALSE)
        second == next_row(grades_csv, 2, FALSE)
        third == next_row(grades_csv, 3, FALSE)
    IN  IF first.kind = "raise" THEN first
        ELSE IF second.kind = "raise" THEN second
        ELSE IF third.kind = "raise" THEN third
        ELSE Return(graded_indices_from(third.value, 0), <<>>)

\* next(reader) is called after the with block has closed the file
get_ProjectStem_graded_assignments(grades_csv) ==
    LET header == next_row(grades_csv, 1, TRUE)
    IN  IF header.kind = "raise" THEN header
        ELSE Return([i \in 1..(Len(header.value) - 2) |-> i + 1], <<>>)

getGradedAssignments(grades_csv, type) ==
    IF type = "P" THEN get_ProjectStem_graded_assignments(grades_csv)
    ELSE IF type = "C" THEN get_CodeHS_graded_assignments(grades_csv)
    ELSE Return(<<>>, <<>>)

(***************************************************************************)
(* Student index builder (grades)                                          *)
(***************************************************************************)
RECURSIVE get_codehs_grades_from(_, _, _)
get_codehs_grades_from(dict, rows, i) ==
    IF i > Len(rows) THEN Return(dict, <<>>)
    ELSE IF ~InRange(rows[i], 2) THEN Raise("IndexError", <<>>)
    ELSE get_codehs_grades_from(DictSet(dict, Cell(rows[i], 2), rows[i]), rows, i + 1)

get_codehs_grades_from_file(grades_csv) ==
    LET first == next_row(grades_csv, 1, FALSE)
        second == next_row(grades_csv, 2, FALSE)
        third == next_row(grades_csv, 3, FALSE)
    IN  IF first.kind = "raise" THEN first
        ELSE IF second.kind = "raise" THEN second
        ELSE IF third.kind = "raise" THEN third
        ELSE get_codehs_grades_from(DictSet(<<>>, "header", first.value), grades_csv, 4)

(***************************************************************************)
(* Output assembler                                                        *)
(***************************************************************************)
identity_header == <<"Email", "First Name", "Last Name", "Unique User ID">>

RECURSIVE assignment_names_from(_, _, _)
assignment_names_from(header, indices, k) ==
    IF k > Len(indices) THEN Return(<<>>, <<>>)
    ELSE IF ~InRange(header, indices[k]) THEN Raise("IndexError", <<>>)
    ELSE
    LET rest == assignment_names_from(header, indices, k + 1)
    IN  IF rest.kind = "raise" THEN rest
        ELSE Return(<<Cell(header, indices[k])>> \o rest.value, <<>>)

build_CodeHS_csv_header(dict, indices) ==
    IF ~HasKey(dict, "header") THEN Raise("KeyError", <<>>)
    ELSE
    LET assignments == assignment_names_from(DictGet(dict, "header"), indices, 1)
    IN  IF assignments.kind = "raise" THEN assignments
        ELSE Return(identity_header \o assignments.value, <<>>)

\* build_CodeHS_row is "pass" and the loop that would call it is commented
\* out: no row is built
build_CodeHS_row(student, students, dict, indices) == Return("None", <<>>)

\* open(output_file, 'w') creates or empties the file; the value returned is
\* the rows given to writer.writerow
build_CodeHS_csv(students, dict, indices) ==
    LET header == build_CodeHS_csv_header(dict, indices)
    IN  IF header.kind = "raise" THEN header
        ELSE Return(<<header.value>>, <<>>)

(***************************************************************************)
(* Inputs                                                                  *)
(***************************************************************************)
MaxGradeRows == 4

MaxTypeCols == 3

MaxHeaderLen == 5

MaxRosterRows == 2

SeqsUpTo(S, n) == UNION {[1..k -> S] : k \in 0..n}

\* grade files of the runs of main: every sequence of these rows
MainGradeRows ==
    { <<"Name", "Section", "Email", "A1", "A2">>,
      <<"", "", "", "Video", "Exercise">>,
      <<"Jane", "1", "ab1@x", "10", "20">>,
      <<"Hdr", "1", "header", "30", "40">>,
      <<"n", "s">> }

GradeFilesMain == SeqsUpTo(MainGradeRows, MaxGradeRows)

\* roster files of the runs of main
RosterFilesMain ==
    { <<>>,
      <<required_headers>>,
      <<required_headers, <<"ab1@x", "Jane", "Doe", "1_1">>>>,
      <<required_headers, <<"ab1@x", "Jane", "Doe", "1_1">>,
                          <<"cd12@x", "John", "Roe", "1_12">>>>,
      <<required_headers, <<"cd12@x", "John", "Roe", "1_12">>,
                          <<"ab1@x", "Jane", "Doe", "1_1">>>>,
      <<required_headers, <<"ab1@x", "Jane", "Doe", "1_2">>>>,
      <<required_headers, <<"ab1@x", "Jane", "Doe", "1_1">>, <<"cd12@x", "John">>>>,
      <<<<"First Name", "Student Email", "Last Name", "Unique User ID">>>> }

\* grade files given to the validator and the classifier on their own: rows
\* of every width, and every activity-type row
PlainRows == {<<>>, <<"x">>, <<"x", "x">>, <<"x", "x", "x">>}

ActivityTypes == {"Video", "video", " Video ", "Exercise", "exercise ", "quiz",
                  " Unit Quiz", "check for understanding"}

GradeFiles ==
    SeqsUpTo(PlainRows, MaxGradeRows)
        \cup {<<<<"Name", "Section", "Email", "A1">>, <<>>, t>> :
                  t \in SeqsUpTo(ActivityTypes, MaxTypeCols)}

\* roster files given to the validator on its own: every header row over
\* HeaderNames with no or one well-formed row, and every sequence of
\* RosterRows under three headers that pass the header check
HeaderNames == {"Student Email", " Student Email", "First Name", "Last Name",
                "Unique User ID"}

RosterRows ==
    {<<>>, <<"ab1@x">>, <<"ab1@x", "J", "D">>, <<"", "J", "D", "">>}
        \cup {<<e, "J", "D", u>> : e \in {"ab1@x", "ab12@x", "a1@x", "header"},
                                   u \in {"1_1", "1_12"}}
        \cup {<<e, "J", "D", "1_1", x>> : e \in {"ab1@x", "header"},
                                          x \in {"ab1@x", "a1@x"}}

PassingHeaders ==
    { required_headers,
      required_headers \o <<"Phone">>,
      <<" Student Email", "First Name", "Last Name", "Unique User ID", "Student Email">> }

RosterFiles ==
    {<<>>}
        \cup {<<h>> \o rows : h \in SeqsUpTo(HeaderNames, MaxHeaderLen),
                              rows \in {<<>>, <<<<"ab1@x", "J", "D", "1_1">>>>,
                                        <<<<"ab1@x", "J", "D", "1_1", "x">>>>}}
        \cup {<<h>> \o rows : h \in PassingHeaders,
                              rows \in SeqsUpTo(RosterRows, MaxRosterRows)}

(***************************************************************************)
(* main()                                                                  *)
(***************************************************************************)
\* the state before any call: nothing validated, nothing built, no output
NothingDone ==
    /\ grade_valid = "not_run"
    /\ roster_valid = "not_run"
    /\ graded_assignments = <<>>
    /\ roster = <<>>
    /\ grades = <<>>
    /\ output_opened = FALSE
    /\ output = <<>>
    /\ exit_status = 0
    /\ exc = ""
    /\ stdout = <<>>

\* get_grade_import_type() and get_file_paths() have returned
Init ==
    /\ pc = "grade_file_is_valid"
    /\ import_type \in {"P", "C"}
    /\ roster_file \in RosterFilesMain
    /\ grades_file \in GradeFilesMain
    /\ NothingDone

\* an uncaught exception ends the interpreter with status 1
Crash(e, printed) ==
    /\ pc' = "crashed"
    /\ exc' = e
    /\ exit_status' = 1
    /\ stdout' = stdout \o printed

Outcome(r) == IF r.kind = "raise" THEN "raised" ELSE IF r.value THEN "True" ELSE "False"

GradeFileIsValid ==
    /\ pc = "grade_file_is_valid"
    /\ LET r == grade_file_is_valid(grades_file)
       IN  /\ grade_valid' = Outcome(r)
           /\ IF r.kind = "raise" THEN Crash(r.exc, r.out)
              ELSE IF ~r.value
              THEN /\ pc' = "exited"
                   /\ exit_status' = 1
                   /\ stdout' = stdout \o r.out \o <<Diag("invalid_grades_file", 0, "")>>
                   /\ exc' = exc
              ELSE /\ pc' = "roster_file_is_valid"
                   /\ stdout' = stdout \o r.out
                   /\ UNCHANGED <<exit_status, exc>>
    /\ UNCHANGED <<import_type, roster_file, grades_file, roster_valid,
                   graded_assignments, roster, grades, output_opened, output>>

\* a main that prints the roster diagnostic but goes on instead of exiting
RosterFileIsValid_GoesOn ==
    /\ pc = "roster_file_is_valid"
    /\ LET r == roster_file_is_valid(roster_file)
       IN  /\ roster_valid' = Outcome(r)
           /\ IF r.kind = "raise" THEN Crash(r.exc, r.out)
              ELSE /\ pc' = "getGradedAssignments"
                   /\ stdout' = stdout \o r.out
                   /\ UNCHANGED <<exit_status, exc>>
    /\ UNCHANGED <<import_type, roster_file, grades_file, grade_valid,
                   graded_assignments, roster, grades, output_opened, output>>

RosterFileIsValid ==
    /\ pc = "roster_file_is_valid"
    /\ LET r == roster_file_is_valid(roster_file)
       IN  /\ roster_valid' = Outcome(r)
           /\ IF r.kind = "raise" THEN Crash(r.exc, r.out)
              ELSE IF ~r.value
              THEN /\ pc' = "exited"
                   /\ exit_status' = 1
                   /\ stdout' = stdout \o r.out \o <<Diag("invalid_roster_file", 0, "")>>
                   /\ exc' = exc
              ELSE /\ pc' = "getGradedAssignments"
                   /\ stdout' = stdout \o r.out
                   /\ UNCHANGED <<exit_status, exc>>
    /\ UNCHANGED <<import_type, roster_file, grades_file, grade_valid,
                   graded_assignments, roster, grades, output_opened, output>>

GetGradedAssignments ==
    /\ pc = "getGradedAssignments"
    /\ LET r == getGradedAssignments(grades_file, import_type)
       IN  IF r.kind = "raise"
           THEN Crash(r.exc, r.out) /\ UNCHANGED graded_assignments
           ELSE /\ graded_assignments' = r.value
                /\ pc' = "get_students_in_roster"
                /\ stdout' = stdout \o <<Diag("graded_assignments", 0, "")>>
                /\ UNCHANGED <<exit_status, exc>>
    /\ UNCHANGED <<import_type, roster_file, grades_file, grade_valid, roster_valid,
                   roster, grades, output_opened, output>>

\* roster = get_students_in_roster(roster_file), then the branch on
\* import_type: 'C' goes on to read the grades, 'P' prints and returns
GetStudentsInRoster ==
    /\ pc = "get_students_in_roster"
    /\ LET r == get_students_in_roster(roster_file)
       IN  IF r.kind = "raise"
           THEN Crash(r.exc, r.out) /\ UNCHANGED roster
           ELSE /\ roster' = r.value
                /\ IF import_type = "C"
                   THEN pc' = "get_codehs_grades_from_file" /\ stdout' = stdout
                   ELSE /\ pc' = "done"
                        /\ stdout' = stdout \o <<Diag("projectstem_not_implemented", 0, "")>>
                /\ UNCHANGED <<exit_status, exc>>
    /\ UNCHANGED <<import_type, roster_file, grades_file, grade_valid, roster_valid,
                   graded_assignments, grades, output_opened, output>>

GetCodehsGradesFromFile ==
    /\ pc = "get_codehs_grades_from_file"
    /\ LET r == get_codehs_grades_from_file(grades_file)
       IN  IF r.kind = "raise"
           THEN Crash(r.exc, r.out) /\ UNCHANGED grades
           ELSE /\ grades' = r.value
                /\ pc' = "build_CodeHS_csv"
                /\ UNCHANGED <<exit_status, exc, stdout>>
    /\ UNCHANGED <<import_type, roster_file, grades_file, grade_valid, roster_valid,
                   graded_assignments, roster, output_opened, output>>

BuildCodeHSCsv ==
    /\ pc = "build_CodeHS_csv"
    /\ output_opened' = TRUE
    /\ LET r == build_CodeHS_csv(roster, grades, graded_assignments)
       IN  IF r.kind = "raise"
           THEN Crash(r.exc, r.out) /\ output' = <<>>
           ELSE /\ output' = r.value
                /\ pc' = "done"
                /\ UNCHANGED <<exit_status, exc, stdout>>
    /\ UNCHANGED <<import_type, roster_file, grades_file, grade_valid, roster_valid,
                   graded_assignments, roster, grades>>

Next ==
    \/ GradeFileIsValid
    \/ RosterFileIsValid
    \/ GetGradedAssignments
    \/ GetStudentsInRoster
    \/ GetCodehsGradesFromFile
    \/ BuildCodeHSCsv

Spec == Init /\ [][Next]_vars

(***************************************************************************)
(* The roster validator and the roster index builder on their own          *)
(***************************************************************************)
InitRoster ==
    /\ pc = "call_roster_file_is_valid"
    /\ import_type = "C"
    /\ roster_file \in RosterFiles
    /\ grades_file = <<>>
    /\ NothingDone

CallRosterFileIsValid ==
    /\ pc = "call_roster_file_is_valid"
    /\ LET r == roster_file_is_valid(roster_file)
       IN  /\ roster_valid' = Outcome(r)
           /\ exc' = r.exc
           /\ stdout' = r.out
    /\ pc' = "call_get_students_in_roster"
    /\ UNCHANGED <<import_type, roster_file, grades_file, grade_valid,
                   graded_assignments, roster, grades, output_opened, output,
                   exit_status>>

CallGetStudentsInRoster ==
    /\ pc = "call_get_students_in_roster"
    /\ LET r == get_students_in_roster(roster_file)
       IN  IF r.kind = "raise"
           THEN pc' = "get_students_in_roster_raised" /\ UNCHANGED roster
           ELSE pc' = "get_students_in_roster_returned" /\ roster' = r.value
    /\ UNCHANGED <<import_type, roster_file, grades_file, grade_valid, roster_valid,
                   graded_assignments, grades, output_opened, output,
                   exit_status, exc, stdout>>

NextRoster == CallRosterFileIsValid \/ CallGetStudentsInRoster

SpecRoster == InitRoster /\ [][NextRoster]_vars

(***************************************************************************)
(* The grade table validator and the classifier on their own               *)
(***************************************************************************)
InitGrades ==
    /\ pc = "call_grade_file_is_valid"
    /\ import_type \in {"P", "C"}
    /\ roster_file = <<>>
    /\ grades_file \in GradeFiles
    /\ NothingDone

CallGradeFileIsValid ==
    /\ pc = "call_grade_file_is_valid"
    /\ LET r == grade_file_is_valid(grades_file)
       IN  /\ grade_valid' = Outcome(r)
           /\ exc' = r.exc
           /\ stdout' = r.out
    /\ pc' = "call_getGradedAssignments"
    /\ UNCHANGED <<import_type, roster_file, grades_file, roster_valid,
                   graded_assignments, roster, grades, output_opened, output,
                   exit_status>>

CallGetGradedAssignments ==
    /\ pc = "call_getGradedAssignments"
    /\ LET r == getGradedAssignments(grades_file, import_type)
       IN  IF r.kind = "raise"
           THEN /\ pc' = "getGradedAssignments_raised"
                /\ exc' = r.exc
                /\ UNCHANGED graded_assignments
           ELSE /\ pc' = "getGradedAssignments_returned"
                /\ exc' = ""
                /\ graded_assignments' = r.value
    /\ UNCHANGED <<import_type, roster_file, grades_file, grade_valid, roster_valid,
                   roster, grades, output_opened, output, exit_status, stdout>>

NextGrades == CallGradeFileIsValid \/ CallGetGradedAssignments

SpecGrades == InitGrades /\ [][NextGrades]_vars

(***************************************************************************)
(* Properties                                                              *)
(***************************************************************************)
Printed(msg, row) == \E k \in 1..Len(stdout) : stdout[k].msg = msg /\ stdout[k].row = row

\* the roster validator has been applied to roster_file
RosterChecked == roster_valid # "not_run"

\* the roster's header row has the four required names, Student Email first
\* and Unique User ID fourth (surrounding whitespace ignored, as the position
\* check ignores it)
HeaderLacks(name) == ~InList(name, roster_file[1])

HeaderMisplaced ==
    \/ Len(roster_file[1]) < 4
    \/ strip(roster_file[1][1]) # "Student Email"
    \/ strip(roster_file[1][4]) # "Unique User ID"

HeadersValid ==
    /\ Len(roster_file) >= 1
    /\ \A k \in 1..Len(required_headers) : ~HeaderLacks(required_headers[k])
    /\ ~HeaderMisplaced

\* data row k (1-based) of the roster, its email (column 0) and unique id
\* (column 3), a missing cell read as the empty string
RosterRow(k) == roster_file[k + 1]

NumRosterRows == Len(roster_file) - 1

EmailOf(row) == IF Len(row) >= 1 THEN row[1] ELSE ""

UniqueIdOf(row) == IF Len(row) >= 4 THEN row[4] ELSE ""

EmailIsMalformed(row) == ~re_match(EmailOf(row)).matched

IdMismatch(row) ==
    /\ re_match(EmailOf(row)).matched
    /\ UniqueIdOf(row) # "1_" \o re_match(EmailOf(row)).group1

IdsAgree(row) ==
    /\ re_match(EmailOf(row)).matched
    /\ UniqueIdOf(row) = "1_" \o re_match(EmailOf(row)).group1

\* C1: the output file is opened only after both validators returned True; a
\* validator returning False ends the run there with exit status 1, the
\* later steps not run and the output file neither opened nor written.
C1_OutputOnlyAfterValidation ==
    /\ output_opened => grade_valid = "True" /\ roster_valid = "True"
    /\ output # <<>> => output_opened
    /\ grade_valid = "False" =>
           /\ pc = "exited" /\ exit_status = 1
           /\ roster_valid = "not_run"
           /\ ~output_opened /\ output = <<>>
    /\ roster_valid = "False" =>
           /\ pc = "exited" /\ exit_status = 1
           /\ graded_assignments = <<>> /\ roster = <<>> /\ grades = <<>>
           /\ ~output_opened /\ output = <<>>

C1_Witness ==
    /\ output_opened
    /\ output # <<>>
    /\ grade_valid = "True"
    /\ roster_valid = "True"

\* C2: a completed CodeHS run wrote the header and then one row per roster
\* student, in roster order: the student's email, first name, last name and
\* unique id, then the selected columns of the grade row with that email.
C2_OneRowPerStudent ==
    (pc = "done" /\ import_type = "C") =>
        /\ Len(output) = 1 + NumRosterRows
        /\ \A k \in 1..NumRosterRows :
               LET student == RosterRow(k)
               IN  /\ SubSeq(output[k + 1], 1, 4) = SubSeq(student, 1, 4)
                   /\ HasKey(grades, student[1]) =>
                          SubSeq(output[k + 1], 5, Len(output[k + 1]))
                              = [j \in 1..Len(graded_assignments) |->
                                    Cell(DictGet(grades, student[1]), graded_assignments[j])]

\* C3: with valid headers, a data row whose email is malformed or whose
\* email digits differ from its unique id's makes the roster validator
\* return False and print that kind of diagnostic with the 1-based number of
\* such a row; and the validator returns True only if the ids agree in every
\* data row.
C3_IdConsistency ==
    (RosterChecked /\ HeadersValid) =>
        /\ (\E k \in 1..NumRosterRows : EmailIsMalformed(RosterRow(k)) \/ IdMismatch(RosterRow(k)))
               => /\ roster_valid = "False"
                  /\ \E k \in 1..NumRosterRows :
                         \/ EmailIsMalformed(RosterRow(k)) /\ Printed("invalid_email_format", k)
                         \/ IdMismatch(RosterRow(k)) /\ Printed("id_mismatch", k)
        /\ roster_valid = "True" => \A k \in 1..NumRosterRows : IdsAgree(RosterRow(k))

\* C4: a roster whose header row lacks a required name, or has Student Email
\* not first or Unique User ID not fourth, fails validation, with a
\* diagnostic for the missing name or for the misplaced column respectively;
\* a roster with valid headers whose rows all have four columns and agreeing
\* ids passes.
C4_HeaderCheck ==
    (RosterChecked /\ Len(roster_file) >= 1) =>
        /\ \A k \in 1..Len(required_headers) :
               HeaderLacks(required_headers[k]) =>
                   /\ roster_valid = "False"
                   /\ \E j \in 1..Len(stdout) :
                          stdout[j].msg = "must_contain" /\ stdout[j].arg = required_headers[k]
        /\ ((\A k \in 1..Len(required_headers) : ~HeaderLacks(required_headers[k]))
                /\ HeaderMisplaced)
               => /\ roster_valid = "False"
                  /\ Printed("email_not_first_column", 0) \/ Printed("unique_id_not_fourth_column", 0)
                  /\ \A j \in 1..Len(stdout) : stdout[j].msg # "must_contain"
        /\ (HeadersValid
                /\ \A k \in 1..NumRosterRows : Len(RosterRow(k)) >= 4 /\ IdsAgree(RosterRow(k)))
               => roster_valid = "True"

\* C5: grade_file_is_valid returns False exactly when some row after the
\* first has a column count different from the first row's, and returns True
\* when there is a first row and every later row has its column count.
C5_GradeFileValidity ==
    grade_valid # "not_run" =>
        /\ grade_valid = "False" <=>
               \E k \in 2..Len(grades_file) : Len(grades_file[k]) # Len(grades_file[1])
        /\ (Len(grades_file) >= 1
                /\ \A k \in 2..Len(grades_file) : Len(grades_file[k]) = Len(grades_file[1]))
               => grade_valid = "True"

C5_Witness ==
    /\ grade_valid = "False"
    /\ Len(grades_file) >= 3
    /\ Len(grades_file[2]) = Len(grades_file[1])
    /\ Len(grades_file[3]) # Len(grades_file[1])

\* the CodeHS classifier has returned for a grade file with an activity-type row
ClassifiedCodeHS ==
    /\ import_type = "C"
    /\ pc \in {"getGradedAssignments_returned", "getGradedAssignments_raised"}
    /\ Len(grades_file) >= 3

Ascending(seq) == \A k \in 1..(Len(seq) - 1) : seq[k] < seq[k + 1]

Selected == {graded_assignments[k] : k \in 1..Len(graded_assignments)}

ActivityType(i) == Cell(grades_file[3], i)

\* C6 as stated: the selected indices are ascending and are those of the
\* columns whose trimmed, lower-cased type is in an allow-list that has
\* "exercise", "quiz" and "check for understanding"; "video" is not in it.
C6_AsStated ==
    ClassifiedCodeHS =>
        /\ pc = "getGradedAssignments_returned"
        /\ Ascending(graded_assignments)
        /\ \A i \in 0..(Len(grades_file[3]) - 1) :
               /\ lower(strip(ActivityType(i))) \in {"exercise", "quiz", "check for understanding"}
                      => i \in Selected
               /\ lower(strip(ActivityType(i))) = "video" => i \notin Selected

\* C6 (amended): the selected indices are ascending and are exactly those of
\* the columns whose trimmed, lower-cased type is "check for understanding",
\* "exercise" or "unit quiz"; "Video", "video", " Video " and "quiz" are
\* excluded, "Exercise" and "exercise " included, and no type is an error.
C6_Classifier ==
    ClassifiedCodeHS =>
        /\ pc = "getGradedAssignments_returned"
        /\ Ascending(graded_assignments)
        /\ Selected = {i \in 0..(Len(grades_file[3]) - 1) :
                           lower(strip(ActivityType(i)))
                               \in {"check for understanding", "exercise", "unit quiz"}}
        /\ \A i \in 0..(Len(grades_file[3]) - 1) :
               /\ ActivityType(i) \in {"Video", "video", " Video ", "quiz"} => i \notin Selected
               /\ ActivityType(i) \in {"Exercise", "exercise ", " Unit Quiz"} => i \in Selected

C6_Witness ==
    /\ ClassifiedCodeHS
    /\ Len(grades_file[3]) = 3
    /\ ActivityType(0) = " Video "
    /\ ActivityType(1) = "exercise "
    /\ ActivityType(2) = "quiz"
    /\ graded_assignments = <<1>>

\* C7: on a valid grade file the ProjectStem classifier returns every column
\* index from 2 through the last column of the first row, ascending.
C7_FullRange ==
    (/\ import_type = "P"
     /\ pc \in {"getGradedAssignments_returned", "getGradedAssignments_raised"}
     /\ grade_valid = "True") =>
        /\ pc = "getGradedAssignments_returned"
        /\ graded_assignments = [k \in 1..(Len(grades_file[1]) - 2) |-> k + 1]

\* C8: with valid headers, every data row with fewer than 4 columns makes
\* roster_file_is_valid return False and print the row-width diagnostic with
\* that row's 1-based number.
C8_ShortRowFlagged ==
    (RosterChecked /\ HeadersValid) =>
        \A k \in 1..NumRosterRows :
            Len(RosterRow(k)) < 4 =>
                /\ roster_valid = "False"
                /\ Printed("missing_columns", k)

\* C9: the header written by a completed CodeHS run is Email, First Name,
\* Last Name, Unique User ID and then the grade file's first-row name of each
\* selected column, in selection order, every selected index being a position
\* of the first row.
C9_OutputHeader ==
    (pc = "done" /\ import_type = "C") =>
        /\ \A k \in 1..Len(graded_assignments) : InRange(grades_file[1], graded_assignments[k])
        /\ Len(output) >= 1
        /\ output[1] = <<"Email", "First Name", "Last Name", "Unique User ID">>
                           \o [k \in 1..Len(graded_assignments) |->
                                  Cell(grades_file[1], graded_assignments[k])]

\* C10: for an accepted roster, the key of every data row in the index (its
\* column 0) is a well-formed email whose digits are those of the row's
\* column 3 after "1_", so no key is "header" and the index's header entry is
\* the header row.
C10_KeysAreValidated ==
    (pc = "get_students_in_roster_returned" /\ roster_valid = "True") =>
        /\ \A k \in 1..NumRosterRows :
               /\ IdsAgree(RosterRow(k))
               /\ EmailOf(RosterRow(k)) # "header"
               /\ HasKey(roster, EmailOf(RosterRow(k)))
        /\ DictGet(roster, "header") = roster_file[1]

====
